---------------------------- MODULE Spec2Model ----------------------------
(***************************************************************************)
(* A model of rusty_ytdl's Video facade (src/src/info.rs): the watch-page  *)
(* extraction, the playability gate, the format catalog of get_basic_info  *)
(* and get_info, and stream() with the chunked session it opens.           *)
(*                                                                         *)
(* The remote site (page text, parsed documents, player script, manifest,  *)
(* media origin) and the caller's options are one record, `world`, drawn   *)
(* at Init and fixed afterwards, so that the results of different          *)
(* operations can be compared "for the same remote responses".             *)
(***************************************************************************)
EXTENDS Integers, Sequences, FiniteSets, TLC

VARIABLES
    world,      \* remote responses and caller options
    basic,      \* result of the last get_basic_info() call
    full,       \* result of the last get_info() call
    strm,       \* result of the last stream() call
    selection,  \* what choose_format returned inside the last stream() call
    session,    \* the Stream opened by stream(), or NoSession
    pulls,      \* outcomes of the session's chunk() calls, oldest first
    requests,   \* requests issued by the last facade operation, oldest first
    input,      \* the arguments of Video::new / Video::new_with_options
    video,      \* result of the constructor call
    again,      \* result of Video::new(video.get_video_url())
    got,        \* what get_video_url() and get_video_id() last returned
    bvideo,     \* result of the blocking constructor call
    bbasic,     \* result of the last blocking get_basic_info() call
    bfull,      \* result of the last blocking get_info() call
    brequests,  \* requests issued by the last blocking operation
    sessions,   \* the Streams two stream() calls built, by cell
    observed    \* per handle: stream()'s result and the pulls made on it

\* the state of the constructors, the getters and the blocking adapter
facade == <<input, video, again, got, bvideo, bbasic, bfull, brequests>>

\* the state of two sessions opened from one Video
streams == <<sessions, observed>>

vars ==
    <<world, basic, full, strm, selection, session, pulls, requests, input,
      video, again, got, bvideo, bbasic, bfull, brequests, sessions,
      observed>>

-----------------------------------------------------------------------------
(* Bounds of the model *)

MaxScripts == 2     \* script elements on a watch page
MaxFormats == 2     \* raw streaming-data entries in a player response
MaxLines == 2       \* lines of an HLS manifest
MaxLength == 3      \* largest content length of a media source
MaxWindow == 2      \* largest caller-supplied dl_chunk_size
MaxPulls == 5       \* chunk() calls recorded per session
IdLen == 2          \* characters of a video id in the model
MaxPairPulls == 3   \* chunk() calls recorded per session of a pair

-----------------------------------------------------------------------------
(* Results of the public operations *)

NoInfo == [formats |-> <<>>, dash |-> FALSE, hls |-> "none"]

NotCalled == [kind |-> "None", err |-> "", info |-> NoInfo]

Ok(info) == [kind |-> "Ok", err |-> "", info |-> info]

Err(e) == [kind |-> "Err", err |-> e, info |-> NoInfo]

\* unwrap()/expect() on None or Err, or an integer division by zero: the
\* thread unwinds and the caller gets no Result at all
Panic == [kind |-> "Panic", err |-> "", info |-> NoInfo]

-----------------------------------------------------------------------------
(* Dual-blob extraction: info.rs 124-154 *)

\* The text of a script element after the marker is removed, as characters.
\* A well-formed assignment ends with the statement terminator ";".
GoodBody == <<"{", "}", ";">>
BareBody == <<"{", "}">>        \* a document with no trailing ";"
JunkBody == <<"x", ";">>        \* not a JSON document

Markers == {"player", "initial"}

Scripts == [marker : Markers, body : {GoodBody, BareBody, JunkBody}]

\* .filter(contains marker).map(replace marker).next().unwrap_or("")
FirstScript(scripts, marker) ==
    LET idx == {i \in 1..Len(scripts) : scripts[i].marker = marker}
    IN  IF idx = {} THEN <<>>
        ELSE scripts[CHOOSE i \in idx : \A j \in idx : i <= j].body

\* String::pop: drops the last character whatever it is; no-op on ""
Pop(s) == IF s = <<>> THEN <<>> ELSE SubSeq(s, 1, Len(s) - 1)

\* serde_json::from_str(..) is Ok
Parses(s) == s = <<"{", "}">>

ExtractBlob(scripts, marker) == Pop(FirstScript(scripts, marker))

\* Both from_str(..).unwrap() calls return
BlobsParse(scripts) ==
    /\ Parses(ExtractBlob(scripts, "player"))
    /\ Parses(ExtractBlob(scripts, "initial"))

-----------------------------------------------------------------------------
(* Playability gate: info.rs 156-169 *)

\* What utils::is_play_error / is_private_video / is_rental /
\* is_not_yet_broadcasted read off the parsed player response
is_play_error(pr) == pr.playError

is_private_video(pr) == pr.private

is_rental(pr) == pr.rental

is_not_yet_broadcasted(pr) == pr.notYet

\* a mutation of the gate that tests the rental flag before the privacy flag
PlayabilityGateRentalFirst(pr) ==
    IF is_play_error(pr) THEN "VideoNotFound"
    ELSE IF ~pr.streamingData \/ is_rental(pr) \/ is_not_yet_broadcasted(pr)
         THEN "VideoSourceNotFound"
    ELSE IF is_private_video(pr) THEN "VideoIsPrivate"
    ELSE "pass"

\* a mutation of the gate that tests the privacy flag before the error status
PlayabilityGatePrivateFirst(pr) ==
    IF is_private_video(pr) THEN "VideoIsPrivate"
    ELSE IF is_play_error(pr) THEN "VideoNotFound"
    ELSE IF ~pr.streamingData \/ is_rental(pr) \/ is_not_yet_broadcasted(pr)
         THEN "VideoSourceNotFound"
    ELSE "pass"

\* The error the gate returns, or "pass"
PlayabilityGate(pr) ==
    IF is_play_error(pr) THEN "VideoNotFound"
    ELSE IF is_private_video(pr) THEN "VideoIsPrivate"
    ELSE IF ~pr.streamingData \/ is_rental(pr) \/ is_not_yet_broadcasted(pr)
         THEN "VideoSourceNotFound"
    ELSE "pass"

-----------------------------------------------------------------------------
(* Storyboards: info_extras.rs 586-643 *)

\* thumbnail_count / (columns * rows) in i32: a zero divisor panics
StoryboardPanics(part) == part.columns * part.rows = 0

\* storyboards.present: the spec string exists; parts: what follows its URL
get_storyboards_panics(storyboards) ==
    /\ storyboards.present
    /\ \E i \in 1..Len(storyboards.parts) :
           StoryboardPanics(storyboards.parts[i])

\* utils::clean_video_details builds the video details, storyboards included
clean_video_details_panics(pr) == get_storyboards_panics(pr.storyboards)

-----------------------------------------------------------------------------
(* Formats *)

\* Locators are token sequences; the empty locator is <<>>.
Url(name) == <<"https://", name>>

NoLength == [tag |-> "none", n |-> 0]       \* contentLength absent
JunkLength == [tag |-> "junk", n |-> 0]     \* contentLength not a number
Length(n) == [tag |-> "num", n |-> n]       \* contentLength "n"

Lengths == {NoLength, JunkLength} \cup {Length(n) : n \in 0..MaxLength}

\* One raw entry of streamingData.formats / adaptiveFormats.  kind "url": the
\* entry carries a ready URL; kind "cipher": its URL exists only deciphered.
RawFormat(itag, kind, url, v, a, c, rate, len) ==
    [itag |-> itag, kind |-> kind, url |-> url, has_video |-> v,
     has_audio |-> a, container |-> c, bitrate |-> rate,
     content_length |-> len]

\* structs::VideoFormat, with the catalog source that built it
VideoFormat(itag, url, v, a, c, rate, len, from) ==
    [itag |-> itag, url |-> url, has_video |-> v, has_audio |-> a,
     container |-> c, bitrate |-> rate, content_length |-> len,
     from |-> from]

\* utils::parse_video_formats: every raw entry in discovery order; a cipher
\* entry is kept when the player script's functions decipher it and dropped
\* otherwise, as is an entry left without a locator
ParseRec(raw, functions, i) ==
    [keep |-> /\ raw[i].kind = "cipher" => functions
              /\ raw[i].url # <<>>,
     fmt  |-> VideoFormat(raw[i].itag, raw[i].url, raw[i].has_video,
                          raw[i].has_audio, raw[i].container,
                          raw[i].bitrate, raw[i].content_length,
                          "streaming")]

RECURSIVE ParseFrom(_, _, _)
ParseFrom(raw, functions, i) ==
    IF i > Len(raw) THEN <<>>
    ELSE LET r == ParseRec(raw, functions, i)
         IN  (IF r.keep THEN <<r.fmt>> ELSE <<>>)
                 \o ParseFrom(raw, functions, i + 1)

parse_video_formats(pr, functions) == ParseFrom(pr.raw, functions, 1)

\* utils::sort_formats as a strict order: both audio and video first, then the
\* preferred container, then the higher bitrate
ContainerRank(c) == IF c = "mp4" THEN 0 ELSE 1

AvRank(f) == IF f.has_video /\ f.has_audio THEN 0 ELSE 1

Before(a, b) ==
    \/ AvRank(a) < AvRank(b)
    \/ /\ AvRank(a) = AvRank(b)
       /\ ContainerRank(a.container) < ContainerRank(b.container)
    \/ /\ AvRank(a) = AvRank(b)
       /\ ContainerRank(a.container) = ContainerRank(b.container)
       /\ a.bitrate > b.bitrate

\* a mutation of the sort that is not stable: x goes in front of the entries
\* it compares equal to
InsertBeforeEquals(sorted, x) ==
    LET idx == {i \in 1..Len(sorted) : ~Before(sorted[i], x)}
        at  == IF idx = {} THEN Len(sorted) + 1
               ELSE CHOOSE i \in idx : \A j \in idx : i <= j
    IN  SubSeq(sorted, 1, at - 1) \o <<x>> \o SubSeq(sorted, at, Len(sorted))

\* Vec::sort_by is a stable sort: x goes behind every entry it is not
\* strictly before
InsertStable(sorted, x) ==
    LET idx == {i \in 1..Len(sorted) : Before(x, sorted[i])}
        at  == IF idx = {} THEN Len(sorted) + 1
               ELSE CHOOSE i \in idx : \A j \in idx : i <= j
    IN  SubSeq(sorted, 1, at - 1) \o <<x>> \o SubSeq(sorted, at, Len(sorted))

RECURSIVE SortPrefix(_, _)
SortPrefix(fs, n) ==
    IF n = 0 THEN <<>> ELSE InsertStable(SortPrefix(fs, n - 1), fs[n])

sort_by_sort_formats(fs) == SortPrefix(fs, Len(fs))

-----------------------------------------------------------------------------
(* get_basic_info: info.rs 113-201 *)

Outcome(res, reqs) == [res |-> res, reqs |-> reqs]

\* The catalog of get_basic_info (info.rs 190-200): the player script's
\* functions are fetched, then parse_video_formats(..).unwrap_or(vec![])
BasicFormats(w) == parse_video_formats(w.pr, w.decipher)

BasicInfoOf(w) ==
    [formats |-> BasicFormats(w), dash |-> w.pr.dash, hls |-> w.pr.hls]

\* The watch URL is BASE_URL followed by an id get_video_id accepted, so
\* Url::parse_with_params (116-120) succeeds.
get_basic_info(w) ==
    \* get_html(client, url, None).await?
    IF w.pageFetch # "ok"
    THEN Outcome(Err("TransportError"), <<"watch_page">>)
    \* serde_json::from_str(..).unwrap(), twice
    ELSE IF ~BlobsParse(w.scripts)
    THEN Outcome(Panic, <<"watch_page">>)
    ELSE IF PlayabilityGate(w.pr) # "pass"
    THEN Outcome(Err(PlayabilityGate(w.pr)), <<"watch_page">>)
    \* clean_video_details(.., get_media(..).unwrap(), ..): get_media is
    \* always Some
    ELSE IF clean_video_details_panics(w.pr)
    THEN Outcome(Panic, <<"watch_page">>)
    \* get_html5player(response.as_str()).unwrap()
    ELSE IF ~w.html5player
    THEN Outcome(Panic, <<"watch_page">>)
    \* get_functions(.., client).await?
    ELSE IF w.functionsFetch # "ok"
    THEN Outcome(Err("TransportError"), <<"watch_page", "player_script">>)
    ELSE Outcome(Ok(BasicInfoOf(w)), <<"watch_page", "player_script">>)

-----------------------------------------------------------------------------
(* get_m3u8: info.rs 401-443 *)

\* http_regex ^https?://
HttpMatch(line) == line # <<>> /\ line[1] \in {"http://", "https://"}

IsDigits(tok) == tok \in {"96", "140", "999"}

\* positions where itag_regex /itag/(\d+)/ matches
ItagAt(line) ==
    {i \in 1..(Len(line) - 2) :
        line[i] = "/itag/" /\ IsDigits(line[i + 1]) /\ line[i + 2] = "/"}

ItagMatch(line) == ItagAt(line) # {}

\* capture group 1 of the first match
ItagOf(line) ==
    line[(CHOOSE i \in ItagAt(line) : \A j \in ItagAt(line) : i <= j) + 1]

RECURSIVE ItagAndUrl(_, _)
ItagAndUrl(body, i) ==
    IF i > Len(body) THEN <<>>
    ELSE (IF HttpMatch(body[i]) /\ ItagMatch(body[i])
          THEN <<[itag |-> ItagOf(body[i]), url |-> body[i]]>>
          ELSE <<>>) \o ItagAndUrl(body, i + 1)

\* Err when the manifest URL does not parse or take the canonical host (the
\* request is then made with "" and fails) or when the transport fails
get_m3u8_ok(w) == w.pr.hls = "ok" /\ w.manifestFetch = "ok"

get_m3u8(w) == ItagAndUrl(w.manifest, 1)

-----------------------------------------------------------------------------
(* get_info: info.rs 205-306 *)

\* constants::FORMATS, the built-in itag table (the entries used here)
FORMATS ==
    [itag \in {"96", "140"} |->
        IF itag = "96"
        THEN [has_video |-> TRUE, has_audio |-> TRUE, container |-> "ts",
              bitrate |-> 2, n |-> 96]
        ELSE [has_video |-> FALSE, has_audio |-> TRUE, container |-> "mp4",
              bitrate |-> 1, n |-> 140]]

\* a mutation of the loop body that leaves out the insertion of the url
\* (info.rs 288)
ManifestFormatNoUrl(pair) ==
    IF pair.itag \notin DOMAIN FORMATS THEN <<>>
    ELSE LET st == FORMATS[pair.itag]
         IN  <<VideoFormat(st.n, <<>>, st.has_video, st.has_audio,
                           st.container, st.bitrate, NoLength, "manifest")>>

\* the loop body of info.rs 252-299 for one (itag, url) pair
ManifestFormat(pair) ==
    IF pair.itag \notin DOMAIN FORMATS THEN <<>>
    ELSE LET st == FORMATS[pair.itag]
         IN  <<VideoFormat(st.n, pair.url, st.has_video, st.has_audio,
                           st.container, st.bitrate, NoLength, "manifest")>>

\* a mutation of the loop of info.rs 252-299 that leaves the loop at the first
\* itag the table does not hold (a break for the continue of info.rs 255)
RECURSIVE ManifestFormatsStopAtUnknown(_, _)
ManifestFormatsStopAtUnknown(pairs, i) ==
    IF i > Len(pairs) THEN <<>>
    ELSE IF pairs[i].itag \notin DOMAIN FORMATS THEN <<>>
    ELSE ManifestFormat(pairs[i]) \o ManifestFormatsStopAtUnknown(pairs, i + 1)

RECURSIVE ManifestFormats(_, _)
ManifestFormats(pairs, i) ==
    IF i > Len(pairs) THEN <<>>
    ELSE ManifestFormat(pairs[i]) \o ManifestFormats(pairs, i + 1)

\* has_manifest && info.hls_manifest_url.is_some(), and get_m3u8 returned Ok
HlsMerged(info, w) ==
    /\ info.dash \/ info.hls # "none"
    /\ info.hls # "none"
    /\ get_m3u8_ok(w)

\* a mutation of the merge that keeps only the manifest's formats
MergedFormatsManifestOnly(info, w) ==
    IF HlsMerged(info, w)
    THEN ManifestFormats(get_m3u8(w), 1)
    ELSE info.formats

\* a mutation of the merge in which the disabled block of info.rs 212-240
\* is live and pushes a format for the DASH manifest
MergedFormatsWithDash(info, w) ==
    (IF HlsMerged(info, w)
     THEN info.formats \o ManifestFormats(get_m3u8(w), 1)
     ELSE info.formats)
    \o (IF info.dash
        THEN <<VideoFormat(133, Url("dash"), TRUE, FALSE, "mp4", 1, NoLength,
                           "dash")>>
        ELSE <<>>)

\* info.formats after info.rs 242-301
MergedFormats(info, w) ==
    IF HlsMerged(info, w)
    THEN info.formats \o ManifestFormats(get_m3u8(w), 1)
    ELSE info.formats

\* a mutation of get_info's tail that returns the merged list as it is
FinalFormatsUnsorted(formats) == formats

\* info.rs 303-305
FinalFormats(formats) == sort_by_sort_formats(formats)

InfoRequests(w) ==
    IF w.pr.hls = "ok" THEN <<"manifest">> ELSE <<>>

\* a mutation of get_info that asks for the basic info a second time when
\* the first attempt failed
get_info_RetryOnFailure(w) ==
    LET b == get_basic_info(w)
    IN  IF b.res.kind # "Ok" THEN Outcome(b.res, b.reqs \o b.reqs)
        ELSE Outcome(
                Ok([b.res.info EXCEPT
                       !.formats = FinalFormats(MergedFormats(b.res.info, w))]),
                b.reqs \o InfoRequests(w))

\* a mutation of get_info that propagates get_m3u8's error (info.rs 244 with
\* a "?")
get_info_FailsOnManifestError(w) ==
    LET b == get_basic_info(w)
    IN  IF b.res.kind # "Ok" THEN b
        ELSE IF b.res.info.hls # "none" /\ ~get_m3u8_ok(w)
        THEN Outcome(Err("TransportError"), b.reqs \o InfoRequests(w))
        ELSE Outcome(
                Ok([b.res.info EXCEPT
                       !.formats = FinalFormats(MergedFormats(b.res.info, w))]),
                b.reqs \o InfoRequests(w))

get_info(w) ==
    LET b == get_basic_info(w)
    IN  IF b.res.kind # "Ok" THEN b
        ELSE Outcome(
                Ok([b.res.info EXCEPT
                       !.formats = FinalFormats(MergedFormats(b.res.info, w))]),
                b.reqs \o InfoRequests(w))

-----------------------------------------------------------------------------
(* stream: info.rs 322-380 *)

NoFormat == VideoFormat(0, <<>>, FALSE, FALSE, "", 0, NoLength, "none")

NoSelection == [kind |-> "None", err |-> "", format |-> NoFormat]

Filters == {"VideoAudio", "Video", "Audio"}

Satisfies(f, filter) ==
    CASE filter = "VideoAudio" -> f.has_video /\ f.has_audio
      [] filter = "Video" -> f.has_video /\ ~f.has_audio
      [] filter = "Audio" -> f.has_audio /\ ~f.has_video

\* utils::choose_format: the first entry of the sorted catalog that
\* satisfies the filter; FormatNotFound when there is none or its locator is
\* empty
choose_format(formats, options) ==
    LET sorted == sort_by_sort_formats(formats)
        idx == {i \in 1..Len(sorted) : Satisfies(sorted[i], options.filter)}
        first == CHOOSE i \in idx : \A j \in idx : i <= j
    IN  IF idx = {} \/ sorted[first].url = <<>>
        THEN [kind |-> "Err", err |-> "FormatNotFound", format |-> NoFormat]
        ELSE [kind |-> "Ok", err |-> "", format |-> sorted[first]]

\* a mutation of info.rs 326-333 that falls back to the catalog's first
\* entry when the selection fails
SelectedLinkFallback(sel, formats) ==
    IF sel.kind = "Ok" THEN sel
    ELSE IF formats # <<>> /\ formats[1].url # <<>>
    THEN [kind |-> "Ok", err |-> "", format |-> formats[1]]
    ELSE [kind |-> "Err", err |-> "VideoSourceNotFound", format |-> NoFormat]

\* info.rs 326-333: .map_err(|_op| VideoSourceNotFound)?, then the empty-link
\* check
SelectedLink(sel, formats) ==
    IF sel.kind # "Ok" \/ sel.format.url = <<>>
    THEN [kind |-> "Err", err |-> "VideoSourceNotFound", format |-> NoFormat]
    ELSE sel

DefaultChunkSize == 10485760

\* info.rs 335-339
DlChunkSize(options) ==
    IF options.dl_chunk_size.some THEN options.dl_chunk_size.n
    ELSE DefaultChunkSize

\* info.rs 344-348: .unwrap_or("0").parse::<u64>().unwrap_or(0)
DeclaredLength(format) ==
    IF format.content_length.tag = "num" THEN format.content_length.n ELSE 0

\* info.rs 341
StreamStart == 0

\* a mutation of info.rs 366-373 that stores the window size as the length
StreamOptionsLengthSwapped(link, content_length, dl_chunk_size) ==
    [link |-> link, content_length |-> dl_chunk_size,
     dl_chunk_size |-> dl_chunk_size, start |-> StreamStart,
     end |-> StreamStart + dl_chunk_size]

\* a mutation of info.rs 366-373 that stores the length one too large
StreamOptionsLengthPlusOne(link, content_length, dl_chunk_size) ==
    [link |-> link, content_length |-> content_length + 1,
     dl_chunk_size |-> dl_chunk_size, start |-> StreamStart,
     end |-> StreamStart + dl_chunk_size]

\* info.rs 341-342, 366-373: the StreamOptions the session is built from
StreamOptions(link, content_length, dl_chunk_size) ==
    [link |-> link, content_length |-> content_length,
     dl_chunk_size |-> dl_chunk_size, start |-> StreamStart,
     end |-> StreamStart + dl_chunk_size]

NoSession ==
    [link |-> <<>>, content_length |-> 0, dl_chunk_size |-> 0, start |-> 0,
     end |-> 0]

StreamOutcome(res, sel, ses, reqs) ==
    [res |-> res, sel |-> sel, session |-> ses, reqs |-> reqs]

\* a mutation of info.rs 351 that never asks the origin for the length
NeedsOriginLengthNever(content_length) == FALSE

\* info.rs 351
NeedsOriginLength(content_length) == content_length = 0

\* Stream::new (366-379) is taken to return Ok for the options built here.
stream(w) ==
    LET i == get_info(w)
        sel == choose_format(i.res.info.formats, w.options)
        lnk == SelectedLink(sel, i.res.info.formats)
        declared == DeclaredLength(lnk.format)
        opened(len, reqs) ==
            StreamOutcome(Ok(NoInfo), sel,
                StreamOptions(lnk.format.url, len, DlChunkSize(w.options)),
                reqs)
    IN  \* self.get_info().await?
        IF i.res.kind # "Ok"
        THEN StreamOutcome([i.res EXCEPT !.info = NoInfo], NoSelection,
                           NoSession, i.reqs)
        ELSE IF lnk.kind # "Ok"
        THEN StreamOutcome(Err(lnk.err), sel, NoSession, i.reqs)
        ELSE IF ~NeedsOriginLength(declared)
        THEN opened(declared, i.reqs)
        \* client.get(&link).send().await.map_err(ReqwestMiddleware)?
        ELSE IF w.originFetch # "ok"
        THEN StreamOutcome(Err("ReqwestMiddleware"), sel, NoSession,
                           i.reqs \o <<"media_length">>)
        \* .content_length() is None
        ELSE IF ~w.originLength.some
        THEN StreamOutcome(Err("VideoNotFound"), sel, NoSession,
                           i.reqs \o <<"media_length">>)
        ELSE opened(w.originLength.n, i.reqs \o <<"media_length">>)

-----------------------------------------------------------------------------
(* Stream::chunk, behind blocking/stream/streams.rs 8-19 *)

Min(a, b) == IF a < b THEN a ELSE b

Pull(kind, lo, hi) == [kind |-> kind, lo |-> lo, hi |-> hi]

\* the end-of-stream test
AtEnd(ses) == ses.start >= ses.content_length

\* the range one pull asks for: [start, min(end, content_length))
RangeOf(ses) == Pull("range", ses.start, Min(ses.end, ses.content_length))

\* the cursor after the body of RangeOf(ses) has been returned
Advance(ses) ==
    [ses EXCEPT !.start = Min(ses.end, ses.content_length),
                !.end = Min(ses.end, ses.content_length) + ses.dl_chunk_size]

-----------------------------------------------------------------------------
(* Construction and the getters: info.rs 28-109, 383-390 *)

\* Texts are token sequences.  constants::BASE_URL, the canonical watch URL
\* up to the id
BASE_URL == <<"https://", "www.youtube.com", "/watch?v=">>

IdChars == {"a", "b"}

ValidId(c) == Len(c) = IdLen /\ \A i \in 1..Len(c) : c[i] \in IdChars

NoId == [some |-> FALSE, id |-> <<>>]

SomeId(c) == [some |-> TRUE, id |-> c]

IsParam(tok) == tok \in {"&t=1s", "?t=1s"}

\* the text up to the first further query parameter
UpToParam(t) ==
    LET idx == {i \in 1..Len(t) : IsParam(t[i])}
    IN  IF idx = {} THEN t
        ELSE SubSeq(t, 1, (CHOOSE i \in idx : \A j \in idx : i <= j) - 1)

WatchHosts == {"www.youtube.com", "m.youtube.com"}

\* utils::get_video_id: the id carried by a watch URL or a short URL of the
\* site, or the text itself when it has the shape of an id
get_video_id(t) ==
    LET IdOf(c) == IF ValidId(c) THEN SomeId(c) ELSE NoId
    IN  IF t # <<>> /\ t[1] \in {"https://", "http://"}
        THEN IF Len(t) < 3 THEN NoId
             ELSE IF t[2] \in WatchHosts /\ t[3] = "/watch?v="
             THEN IdOf(UpToParam(SubSeq(t, 4, Len(t))))
             ELSE IF t[2] = "youtu.be" /\ t[3] = "/"
             THEN IdOf(UpToParam(SubSeq(t, 4, Len(t))))
             ELSE NoId
        ELSE IdOf(t)

\* the Video struct (info.rs 19-24), without its client
NoVideo == [video_id |-> <<>>]

NotBuilt == [kind |-> "None", err |-> "", obj |-> NoVideo]

Built(id) == [kind |-> "Ok", err |-> "", obj |-> [video_id |-> id]]

NotBuiltErr(e) == [kind |-> "Err", err |-> e, obj |-> NoVideo]

\* a mutation of Video::new that keeps the caller's text as the id
VideoNewKeepsInput(inp) ==
    IF ~get_video_id(inp.url_or_id).some THEN NotBuiltErr("VideoNotFound")
    ELSE IF inp.build # "ok" THEN NotBuiltErr("Reqwest")
    ELSE Built(inp.url_or_id)

\* Video::new, info.rs 28-56
VideoNew(inp) ==
    IF ~get_video_id(inp.url_or_id).some THEN NotBuiltErr("VideoNotFound")
    \* reqwest::Client::builder().build().map_err(VideoError::Reqwest)?
    ELSE IF inp.build # "ok" THEN NotBuiltErr("Reqwest")
    ELSE Built(get_video_id(inp.url_or_id).id)

\* Video::new_with_options, info.rs 59-109
VideoNewWithOptions(inp) ==
    IF ~get_video_id(inp.url_or_id).some THEN NotBuiltErr("VideoNotFound")
    \* get_random_v6_ip(ipv6_block)?
    ELSE IF inp.options.ipv6_block = "bad" THEN NotBuiltErr("ConfigError")
    ELSE IF inp.build # "ok" THEN NotBuiltErr("Reqwest")
    ELSE Built(get_video_id(inp.url_or_id).id)

\* Video::get_video_url, info.rs 383-385
get_video_url(v) == BASE_URL \o v.video_id

\* Video::get_video_id, info.rs 388-390
Video_get_video_id(v) == v.video_id

NoAnswer == [called |-> FALSE, value |-> <<>>]

Answer(x) == [called |-> TRUE, value |-> x]

-----------------------------------------------------------------------------
(* The blocking adapter: blocking/info.rs 8-43 *)

\* block_async!: the future is driven to its end on the adapter's runtime;
\* it is the same future, so it issues the requests of the async call and
\* yields its output, and a panic inside it unwinds through the adapter
block_async(o) == [res |-> o.res, reqs |-> o.reqs]

\* Ok(x?) on a Result
Question(res) ==
    IF res.kind = "Ok" THEN Ok(res.info)
    ELSE IF res.kind = "Err" THEN Err(res.err)
    ELSE res

NotBuiltBlocking ==
    [kind |-> "None", err |-> "", obj |-> [inner |-> NoVideo]]

\* Ok(Self(x?)) on the async constructor's Result
Wrapped(r) ==
    IF r.kind = "Ok"
    THEN [kind |-> "Ok", err |-> "", obj |-> [inner |-> r.obj]]
    ELSE [kind |-> r.kind, err |-> r.err, obj |-> [inner |-> NoVideo]]

\* blocking Video::new, blocking/info.rs 10-12
blocking_new(inp) == Wrapped(VideoNew(inp))

\* blocking Video::new_with_options, blocking/info.rs 15-20
blocking_new_with_options(inp) == Wrapped(VideoNewWithOptions(inp))

\* blocking Video::get_basic_info, blocking/info.rs 24-26
blocking_get_basic_info(w) ==
    LET o == block_async(get_basic_info(w))
    IN  Outcome(Question(o.res), o.reqs)

\* a mutation of the blocking get_info that drives get_basic_info
blocking_get_info_Basic(w) ==
    LET o == block_async(get_basic_info(w))
    IN  Outcome(Question(o.res), o.reqs)

\* blocking Video::get_info, blocking/info.rs 30-32
blocking_get_info(w) ==
    LET o == block_async(get_info(w))
    IN  Outcome(Question(o.res), o.reqs)

\* blocking Video::get_video_url, blocking/info.rs 35-37
blocking_get_video_url(b) == get_video_url(b.inner)

\* blocking Video::get_video_id, blocking/info.rs 40-42
blocking_get_video_id(b) == Video_get_video_id(b.inner)

-----------------------------------------------------------------------------
(* The remote site and the caller's options *)

RECURSIVE SeqsUpTo(_, _)
SeqsUpTo(S, n) ==
    IF n = 0 THEN {<<>>}
    ELSE LET shorter == SeqsUpTo(S, n - 1)
         IN  shorter \cup {Append(q, x) : q \in shorter, x \in S}

Script(marker, body) == [marker |-> marker, body |-> body]

GoodPage == <<Script("player", GoodBody), Script("initial", GoodBody)>>

Pages == SeqsUpTo(Scripts, MaxScripts)

F18 == RawFormat(18, "url", Url("v18"), TRUE, TRUE, "mp4", 2, NoLength)
F140 == RawFormat(140, "url", Url("a140"), FALSE, TRUE, "mp4", 1, NoLength)
F137 == RawFormat(137, "cipher", Url("v137"), TRUE, FALSE, "mp4", 3,
                  NoLength)
F251 == RawFormat(251, "url", <<>>, FALSE, TRUE, "webm", 2, NoLength)

F134 == RawFormat(134, "url", Url("v134"), TRUE, FALSE, "mp4", 2, NoLength)

RawFormats == {F18, F140, F137, F251}

Catalogs == SeqsUpTo(RawFormats, MaxFormats)

Line96 == <<"https://", "host", "/itag/", "96", "/">>
Line140 == <<"http://", "host", "/itag/", "140", "/">>
Line999 == <<"https://", "host", "/itag/", "999", "/">>
LineBare == <<"host", "/itag/", "96", "/">>

Lines == {Line96, Line140, Line999, LineBare}

Manifests == SeqsUpTo(Lines, MaxLines)

NoStoryboards == [present |-> FALSE, parts |-> <<>>]

Storyboards ==
    {NoStoryboards, [present |-> TRUE, parts |-> <<>>]} \cup
    {[present |-> TRUE,
      parts |-> <<[count |-> 4, columns |-> c, rows |-> r]>>] :
        c \in {0, 2}, r \in {0, 2}}

None == [some |-> FALSE, n |-> 0]
Some(n) == [some |-> TRUE, n |-> n]

\* A playable video with one progressive format and no manifest
PlainResponse ==
    [playError |-> FALSE, private |-> FALSE, rental |-> FALSE,
     notYet |-> FALSE, streamingData |-> TRUE,
     storyboards |-> NoStoryboards, raw |-> <<F18>>, dash |-> FALSE,
     hls |-> "none"]

PlainWorld ==
    [pageFetch |-> "ok", scripts |-> GoodPage, pr |-> PlainResponse,
     html5player |-> TRUE, functionsFetch |-> "ok", decipher |-> TRUE,
     manifestFetch |-> "ok", manifest |-> <<>>,
     options |-> [dl_chunk_size |-> None, filter |-> "VideoAudio"],
     originFetch |-> "ok", originLength |-> None]

Outcomes == {"ok", "transport_err"}

\* every page shape and transport outcome of the watch page
PageWorlds ==
    {[PlainWorld EXCEPT !.scripts = p] : p \in Pages} \cup
    {[PlainWorld EXCEPT !.pageFetch = t] : t \in Outcomes}

\* every content of the parsed documents the gate and the details read
GateWorlds ==
    {[PlainWorld EXCEPT
        !.pr = [PlainResponse EXCEPT
                   !.playError = e, !.private = p, !.rental = r,
                   !.notYet = n, !.streamingData = s, !.storyboards = b],
        !.html5player = h, !.functionsFetch = t] :
        e \in BOOLEAN, p \in BOOLEAN, r \in BOOLEAN, n \in BOOLEAN,
        s \in BOOLEAN, b \in Storyboards, h \in BOOLEAN, t \in Outcomes}

\* a DASH manifest URL beside every HLS outcome and the shorter manifests
ManifestStates ==
    {[hls |-> h, dash |-> d, fetch |-> "ok", body |-> <<>>] :
        h \in {"none", "bad"}, d \in BOOLEAN} \cup
    {[hls |-> "ok", dash |-> d, fetch |-> "transport_err", body |-> <<>>] :
        d \in BOOLEAN} \cup
    {[hls |-> "ok", dash |-> FALSE, fetch |-> "ok", body |-> m] :
        m \in Manifests} \cup
    {[hls |-> "ok", dash |-> TRUE, fetch |-> "ok", body |-> m] :
        m \in {n \in Manifests : Len(n) <= 1}}

CatalogWorld(c, m) ==
    [PlainWorld EXCEPT
        !.pr = [PlainResponse EXCEPT
                   !.raw = c, !.dash = m.dash, !.hls = m.hls],
        !.manifestFetch = m.fetch, !.manifest = m.body]

\* every catalog beside the manifests short of the longest, and every
\* manifest beside the catalogs short of the longest; the media origin gives
\* no length
CatalogWorlds ==
    {CatalogWorld(c, m) :
        c \in Catalogs, m \in {n \in ManifestStates : Len(n.body) < MaxLines}}
    \cup
    {CatalogWorld(c, m) :
        c \in {d \in Catalogs : Len(d) < MaxFormats}, m \in ManifestStates}

\* every catalog under every filter, decipherable or not; the media origin
\* reports an empty source
SelectWorlds ==
    {[PlainWorld EXCEPT
        !.pr = [PlainResponse EXCEPT !.raw = c],
        !.decipher = k,
        !.options = [dl_chunk_size |-> None, filter |-> f],
        !.originLength = Some(0)] :
        c \in Catalogs, k \in BOOLEAN, f \in Filters}

MediaStates ==
    {[fetch |-> "transport_err", length |-> None],
     [fetch |-> "ok", length |-> None]} \cup
    {[fetch |-> "ok", length |-> Some(n)] : n \in 0..MaxLength}

ChunkSizes == {None} \cup {Some(n) : n \in 0..MaxWindow}

\* a format that declares a usable length beside an origin that fails or
\* reports 0, to show the origin is not asked; every other declared length
\* beside every media origin
SourceStates ==
    {s \in [length : Lengths, media : MediaStates] :
        (s.length.tag = "num" /\ s.length.n > 0) =>
            s.media \in {[fetch |-> "transport_err", length |-> None],
                         [fetch |-> "ok", length |-> Some(0)]}}

\* every window size over every source of the chosen format
StreamWorlds ==
    {[PlainWorld EXCEPT
        !.pr = [PlainResponse EXCEPT
                   !.raw = <<[F18 EXCEPT !.content_length = s.length]>>],
        !.options = [dl_chunk_size |-> c, filter |-> "VideoAudio"],
        !.originFetch = s.media.fetch, !.originLength = s.media.length] :
        s \in SourceStates, c \in ChunkSizes}

\* catalogs whose entries tie under sort_formats, or differ only in being
\* muxed or single-track, with manifests that add more of them
SortCatalogs ==
    {<<F140, F134, F18>>, <<F134, F140>>, <<F18, F134, F140, F140>>}

SortWorlds ==
    {[PlainWorld EXCEPT
        !.pr = [PlainResponse EXCEPT !.raw = c, !.hls = "ok"],
        !.manifest = m] :
        c \in SortCatalogs, m \in {<<>>, <<Line140>>, <<Line140, Line96>>}}

Worlds ==
    PageWorlds \cup GateWorlds \cup CatalogWorlds \cup SelectWorlds
        \cup StreamWorlds \cup SortWorlds

\* one world for each way get_basic_info and get_info can end
FacadeWorlds ==
    {PlainWorld,
     [PlainWorld EXCEPT !.pageFetch = "transport_err"],
     [PlainWorld EXCEPT !.scripts = <<>>],
     [PlainWorld EXCEPT !.pr = [PlainResponse EXCEPT !.private = TRUE]],
     [PlainWorld EXCEPT !.pr = [PlainResponse EXCEPT !.notYet = TRUE]],
     [PlainWorld EXCEPT !.html5player = FALSE],
     [PlainWorld EXCEPT !.functionsFetch = "transport_err"]} \cup
    {[PlainWorld EXCEPT
        !.pr = [PlainResponse EXCEPT
                   !.raw = <<F140, F18>>, !.dash = m.dash, !.hls = m.hls],
        !.manifestFetch = m.fetch, !.manifest = m.body] :
        m \in {[hls |-> "ok", dash |-> FALSE, fetch |-> "ok",
                body |-> <<Line140, Line96>>],
               [hls |-> "ok", dash |-> TRUE, fetch |-> "transport_err",
                body |-> <<>>],
               [hls |-> "bad", dash |-> TRUE, fetch |-> "ok",
                body |-> <<>>]}}

Ids == {c \in SeqsUpTo(IdChars, IdLen) : Len(c) = IdLen}

DefaultId == [i \in 1..IdLen |-> "a"]

\* the URLs of the video x, and x itself
ValidTexts(x) ==
    {x,
     BASE_URL \o x,
     BASE_URL \o x \o <<"&t=1s">>,
     <<"http://", "m.youtube.com", "/watch?v=">> \o x,
     <<"https://", "youtu.be", "/">> \o x,
     <<"https://", "youtu.be", "/">> \o x \o <<"?t=1s">>}

\* texts that are neither an id nor a URL of a video
InvalidTexts ==
    {<<>>, BASE_URL, BASE_URL \o <<"&t=1s">>, <<"https://">>} \cup
    UNION {{SubSeq(x, 1, IdLen - 1),
            x \o <<"a">>,
            <<"!">> \o Tail(x),
            BASE_URL \o Tail(x),
            BASE_URL \o x \o <<"b">>,
            <<"https://", "example.com", "/watch?v=">> \o x,
            <<"https://", "www.youtube.com", "/channel/">> \o x} :
           x \in Ids}

\* VideoOptions as the constructors read them; given = FALSE: the caller
\* calls Video::new, which takes none
NoOptions == [given |-> FALSE, ipv6_block |-> "none"]

GivenOptions(block) == [given |-> TRUE, ipv6_block |-> block]

\* denotes: the id of the video the caller means, NoId.id when there is none
Input(t, x, o, b) ==
    [url_or_id |-> t, denotes |-> x, options |-> o, build |-> b]

DefaultInput == Input(DefaultId, DefaultId, NoOptions, "ok")

Inputs ==
    UNION {{Input(t, x, NoOptions, "ok") : t \in ValidTexts(x)} :
           x \in Ids} \cup
    UNION {{Input(t, x, GivenOptions("none"), "ok") :
               t \in {x, BASE_URL \o x}} : x \in Ids} \cup
    {Input(t, NoId.id, o, "ok") :
        t \in InvalidTexts, o \in {NoOptions, GivenOptions("bad")}} \cup
    {Input(DefaultId, DefaultId, o, b) :
        o \in {NoOptions} \cup {GivenOptions(k) : k \in {"ok", "bad"}},
        b \in Outcomes}

-----------------------------------------------------------------------------
(* Two sessions of one Video: info.rs 366-379 *)

\* the caller's two Stream handles
Handles == {1, 2}

\* a mutation of info.rs 366-379 in which stream() hands out one Stream, kept
\* by the Video, to every caller
CellOfShared(k) == IF k \in Handles THEN 1 ELSE k

\* the Stream a handle owns: each stream() call builds its own with
\* Stream::new from a StreamOptions value (info.rs 366-379)
CellOf(k) == k

NoSessions == [c \in Handles |-> NoSession]

NotOpened == [k \in Handles |-> [res |-> NotCalled, pulls |-> <<>>]]

\* playable videos whose source the media origin describes, under every
\* window size
PairWorlds ==
    {[PlainWorld EXCEPT
        !.options = [dl_chunk_size |-> c, filter |-> "VideoAudio"],
        !.originLength = n] :
        c \in ChunkSizes, n \in {None} \cup {Some(m) : m \in 0..MaxLength}}

-----------------------------------------------------------------------------
(* The state machine *)

NoRequests == [basic |-> <<>>, full |-> <<>>, stream |-> <<>>]

NoBlockingRequests == [basic |-> <<>>, full |-> <<>>]

NoAnswers ==
    [url |-> NoAnswer, id |-> NoAnswer, burl |-> NoAnswer, bid |-> NoAnswer]

\* the caller holds a Video that Video::new built from an id
Init ==
    /\ world \in Worlds
    /\ basic = NotCalled
    /\ full = NotCalled
    /\ strm = NotCalled
    /\ selection = NoSelection
    /\ session = NoSession
    /\ pulls = <<>>
    /\ requests = NoRequests
    /\ input = DefaultInput
    /\ video = VideoNew(DefaultInput)
    /\ again = NotBuilt
    /\ got = NoAnswers
    /\ bvideo = NotBuiltBlocking
    /\ bbasic = NotCalled
    /\ bfull = NotCalled
    /\ brequests = NoBlockingRequests
    /\ sessions = NoSessions
    /\ observed = NotOpened

\* Video::get_basic_info
GetBasicInfo ==
    \E o \in {get_basic_info(world)} :
        /\ video.kind = "Ok"
        /\ basic' = o.res
        /\ requests' = [requests EXCEPT !.basic = o.reqs]
        /\ UNCHANGED <<world, full, strm, selection, session, pulls>>
        /\ UNCHANGED facade
        /\ UNCHANGED streams

\* Video::get_info
GetInfo ==
    \E o \in {get_info(world)} :
        /\ video.kind = "Ok"
        /\ full' = o.res
        /\ requests' = [requests EXCEPT !.full = o.reqs]
        /\ UNCHANGED <<world, basic, strm, selection, session, pulls>>
        /\ UNCHANGED facade
        /\ UNCHANGED streams

\* Video::stream: a new session replaces the caller's previous one
StreamOpen ==
    \E o \in {stream(world)} :
        /\ video.kind = "Ok"
        /\ strm' = o.res
        /\ selection' = o.sel
        /\ session' = o.session
        /\ pulls' = <<>>
        /\ requests' = [requests EXCEPT !.stream = o.reqs]
        /\ UNCHANGED <<world, basic, full>>
        /\ UNCHANGED facade
        /\ UNCHANGED streams

\* Stream::chunk at the end of the source: Ok(None), no request
ChunkEnd ==
    /\ strm.kind = "Ok"
    /\ Len(pulls) < MaxPulls
    /\ AtEnd(session)
    /\ pulls' = Append(pulls, Pull("end", session.start, session.start))
    /\ UNCHANGED <<world, basic, full, strm, selection, session, requests>>
    /\ UNCHANGED facade
    /\ UNCHANGED streams

\* Stream::chunk whose ranged request succeeds: Ok(Some(body))
ChunkOk ==
    /\ strm.kind = "Ok"
    /\ Len(pulls) < MaxPulls
    /\ ~AtEnd(session)
    /\ pulls' = Append(pulls, RangeOf(session))
    /\ session' = Advance(session)
    /\ UNCHANGED <<world, basic, full, strm, selection, requests>>
    /\ UNCHANGED facade
    /\ UNCHANGED streams

\* Stream::chunk whose ranged request fails: Err, the cursor stays
ChunkErr ==
    /\ strm.kind = "Ok"
    /\ Len(pulls) < MaxPulls
    /\ ~AtEnd(session)
    /\ pulls' = Append(pulls, Pull("err", session.start, session.start))
    /\ UNCHANGED <<world, basic, full, strm, selection, session, requests>>
    /\ UNCHANGED facade
    /\ UNCHANGED streams

Next ==
    \/ GetBasicInfo
    \/ GetInfo
    \/ StreamOpen
    \/ ChunkEnd
    \/ ChunkOk
    \/ ChunkErr

Spec == Init /\ [][Next]_vars

-----------------------------------------------------------------------------
(* The facade from its construction on, async and blocking side by side *)

FacadeInit ==
    /\ \/ world = PlainWorld /\ input \in Inputs
       \/ world \in FacadeWorlds /\ input = DefaultInput
    /\ basic = NotCalled
    /\ full = NotCalled
    /\ strm = NotCalled
    /\ selection = NoSelection
    /\ session = NoSession
    /\ pulls = <<>>
    /\ requests = NoRequests
    /\ video = NotBuilt
    /\ again = NotBuilt
    /\ got = NoAnswers
    /\ bvideo = NotBuiltBlocking
    /\ bbasic = NotCalled
    /\ bfull = NotCalled
    /\ brequests = NoBlockingRequests
    /\ sessions = NoSessions
    /\ observed = NotOpened

Session == <<world, basic, full, strm, selection, session, pulls, requests>>

\* Video::new(url_or_id)
New ==
    /\ ~input.options.given
    /\ video' = VideoNew(input)
    /\ UNCHANGED <<input, again, got, bvideo, bbasic, bfull, brequests>>
    /\ UNCHANGED Session
    /\ UNCHANGED streams

\* Video::new_with_options(url_or_id, options)
NewWithOptions ==
    /\ input.options.given
    /\ video' = VideoNewWithOptions(input)
    /\ UNCHANGED <<input, again, got, bvideo, bbasic, bfull, brequests>>
    /\ UNCHANGED Session
    /\ UNCHANGED streams

\* Video::new(video.get_video_url()), in the same process
Reconstruct ==
    /\ video.kind = "Ok"
    /\ again' = VideoNew([input EXCEPT
                             !.url_or_id = get_video_url(video.obj)])
    /\ UNCHANGED <<input, video, got, bvideo, bbasic, bfull, brequests>>
    /\ UNCHANGED Session
    /\ UNCHANGED streams

\* Video::get_video_url
GetVideoUrl ==
    /\ video.kind = "Ok"
    /\ got' = [got EXCEPT !.url = Answer(get_video_url(video.obj))]
    /\ UNCHANGED <<input, video, again, bvideo, bbasic, bfull, brequests>>
    /\ UNCHANGED Session
    /\ UNCHANGED streams

\* Video::get_video_id
GetVideoId ==
    /\ video.kind = "Ok"
    /\ got' = [got EXCEPT !.id = Answer(Video_get_video_id(video.obj))]
    /\ UNCHANGED <<input, video, again, bvideo, bbasic, bfull, brequests>>
    /\ UNCHANGED Session
    /\ UNCHANGED streams

\* blocking Video::new(url_or_id)
BlockingNew ==
    /\ ~input.options.given
    /\ bvideo' = blocking_new(input)
    /\ UNCHANGED <<input, video, again, got, bbasic, bfull, brequests>>
    /\ UNCHANGED Session
    /\ UNCHANGED streams

\* blocking Video::new_with_options(url_or_id, options)
BlockingNewWithOptions ==
    /\ input.options.given
    /\ bvideo' = blocking_new_with_options(input)
    /\ UNCHANGED <<input, video, again, got, bbasic, bfull, brequests>>
    /\ UNCHANGED Session
    /\ UNCHANGED streams

\* blocking Video::get_video_url
BlockingGetVideoUrl ==
    /\ bvideo.kind = "Ok"
    /\ got' = [got EXCEPT !.burl = Answer(blocking_get_video_url(bvideo.obj))]
    /\ UNCHANGED <<input, video, again, bvideo, bbasic, bfull, brequests>>
    /\ UNCHANGED Session
    /\ UNCHANGED streams

\* blocking Video::get_video_id
BlockingGetVideoId ==
    /\ bvideo.kind = "Ok"
    /\ got' = [got EXCEPT !.bid = Answer(blocking_get_video_id(bvideo.obj))]
    /\ UNCHANGED <<input, video, again, bvideo, bbasic, bfull, brequests>>
    /\ UNCHANGED Session
    /\ UNCHANGED streams

\* blocking Video::get_basic_info
BlockingGetBasicInfo ==
    \E o \in {blocking_get_basic_info(world)} :
        /\ bvideo.kind = "Ok"
        /\ bbasic' = o.res
        /\ brequests' = [brequests EXCEPT !.basic = o.reqs]
        /\ UNCHANGED <<input, video, again, got, bvideo, bfull>>
        /\ UNCHANGED Session
        /\ UNCHANGED streams

\* blocking Video::get_info
BlockingGetInfo ==
    \E o \in {blocking_get_info(world)} :
        /\ bvideo.kind = "Ok"
        /\ bfull' = o.res
        /\ brequests' = [brequests EXCEPT !.full = o.reqs]
        /\ UNCHANGED <<input, video, again, got, bvideo, bbasic>>
        /\ UNCHANGED Session
        /\ UNCHANGED streams

FacadeNext ==
    \/ New
    \/ NewWithOptions
    \/ Reconstruct
    \/ GetVideoUrl
    \/ GetVideoId
    \/ GetBasicInfo
    \/ GetInfo
    \/ BlockingNew
    \/ BlockingNewWithOptions
    \/ BlockingGetVideoUrl
    \/ BlockingGetVideoId
    \/ BlockingGetBasicInfo
    \/ BlockingGetInfo

FacadeSpec == FacadeInit /\ [][FacadeNext]_vars

-----------------------------------------------------------------------------
(* Two sessions opened from one Video *)

PairInit ==
    /\ world \in PairWorlds
    /\ basic = NotCalled
    /\ full = NotCalled
    /\ strm = NotCalled
    /\ selection = NoSelection
    /\ session = NoSession
    /\ pulls = <<>>
    /\ requests = NoRequests
    /\ input = DefaultInput
    /\ video = VideoNew(DefaultInput)
    /\ again = NotBuilt
    /\ got = NoAnswers
    /\ bvideo = NotBuiltBlocking
    /\ bbasic = NotCalled
    /\ bfull = NotCalled
    /\ brequests = NoBlockingRequests
    /\ sessions = NoSessions
    /\ observed = NotOpened

\* Video::stream called for handle k: the handle's previous session is
\* dropped
OpenSession(k) ==
    \E o \in {stream(world)} :
        /\ video.kind = "Ok"
        /\ observed' = [observed EXCEPT ![k] = [res |-> o.res, pulls |-> <<>>]]
        /\ sessions' = [sessions EXCEPT ![CellOf(k)] = o.session]
        /\ UNCHANGED Session
        /\ UNCHANGED facade

\* Stream::chunk on handle k at the end of the source: Ok(None), no request
PullEnd(k) ==
    /\ observed[k].res.kind = "Ok"
    /\ Len(observed[k].pulls) < MaxPairPulls
    /\ AtEnd(sessions[CellOf(k)])
    /\ observed' =
          [observed EXCEPT
              ![k].pulls = Append(@, Pull("end", sessions[CellOf(k)].start,
                                         sessions[CellOf(k)].start))]
    /\ UNCHANGED sessions
    /\ UNCHANGED Session
    /\ UNCHANGED facade

\* Stream::chunk on handle k whose ranged request succeeds: Ok(Some(body))
PullOk(k) ==
    /\ observed[k].res.kind = "Ok"
    /\ Len(observed[k].pulls) < MaxPairPulls
    /\ ~AtEnd(sessions[CellOf(k)])
    /\ observed' =
          [observed EXCEPT
              ![k].pulls = Append(@, RangeOf(sessions[CellOf(k)]))]
    /\ sessions' = [sessions EXCEPT ![CellOf(k)] = Advance(@)]
    /\ UNCHANGED Session
    /\ UNCHANGED facade

\* Stream::chunk on handle k whose ranged request fails: Err, the cursor
\* stays
PullErr(k) ==
    /\ observed[k].res.kind = "Ok"
    /\ Len(observed[k].pulls) < MaxPairPulls
    /\ ~AtEnd(sessions[CellOf(k)])
    /\ observed' =
          [observed EXCEPT
              ![k].pulls = Append(@, Pull("err", sessions[CellOf(k)].start,
                                         sessions[CellOf(k)].start))]
    /\ UNCHANGED sessions
    /\ UNCHANGED Session
    /\ UNCHANGED facade

PairNext ==
    \E k \in Handles :
        \/ OpenSession(k)
        \/ PullEnd(k)
        \/ PullOk(k)
        \/ PullErr(k)

PairSpec == PairInit /\ [][PairNext]_vars

-----------------------------------------------------------------------------
(* Properties of the gate and the extraction *)

Called(r) == r.kind # "None"

\* the watch page was fetched and both documents parsed
Parsed(w) == w.pageFetch = "ok" /\ BlobsParse(w.scripts)

\* C1: a parsed player response flagged both private and rental-only, with
\* no error status, makes get_basic_info and get_info fail with
\* VideoIsPrivate (never with VideoSourceNotFound, the code's name for the
\* source-unavailable failure).
C1_PrivateBeforeRental ==
    (Parsed(world) /\ world.pr.private /\ world.pr.rental
        /\ ~world.pr.playError)
    => /\ Called(basic) => basic = Err("VideoIsPrivate")
       /\ Called(full) => full = Err("VideoIsPrivate")

C1_Witness ==
    /\ Parsed(world) /\ world.pr.private /\ world.pr.rental
    /\ ~world.pr.playError
    /\ basic = Err("VideoIsPrivate")
    /\ full = Err("VideoIsPrivate")

\* C2 as stated: a parsed player response whose error status is present is
\* reported as VideoUnavailable, whatever the other flags say.
C2_ErrorStatusVideoUnavailable ==
    (Parsed(world) /\ world.pr.playError)
    => /\ Called(basic) => basic = Err("VideoUnavailable")
       /\ Called(full) => full = Err("VideoUnavailable")

\* C2, amended: the error-status rule comes first and wins whatever the
\* privacy flag, rental flag and streaming-data section say, and the failure
\* it reports is VideoNotFound.
C2_ErrorStatusFirst ==
    (Parsed(world) /\ world.pr.playError)
    => /\ Called(basic) => basic = Err("VideoNotFound")
       /\ Called(full) => full = Err("VideoNotFound")

C2_Witness ==
    /\ Parsed(world) /\ world.pr.playError
    /\ world.pr.private /\ world.pr.rental /\ ~world.pr.streamingData
    /\ basic = Err("VideoNotFound")
    /\ full = Err("VideoNotFound")

\* C3: when either embedded document is absent from the fetched page or
\* does not parse, get_basic_info returns the typed failure ParseError.
C3_ParseErrorOnBadBlob ==
    (world.pageFetch = "ok" /\ ~BlobsParse(world.scripts) /\ Called(basic))
    => basic = Err("ParseError")

\* C4: every public operation ends by returning Ok or a typed error; none
\* ends in a panic.
C4_NoPanic ==
    /\ basic.kind # "Panic"
    /\ full.kind # "Panic"
    /\ strm.kind # "Panic"

-----------------------------------------------------------------------------
(* Properties of the catalog *)

Count(fs, x) == Cardinality({i \in 1..Len(fs) : fs[i] = x})

\* every entry of fs occurs in gs at least as often
BagWithin(fs, gs) == \A i \in 1..Len(fs) : Count(gs, fs[i]) >= Count(fs, fs[i])

\* no entry stands behind one that sort_formats ranks after it
Sorted(fs) == \A i, j \in 1..Len(fs) : i < j => ~Before(fs[j], fs[i])

ManifestDerived(f, w) ==
    f.from = "manifest" \/ \E k \in 1..Len(w.manifest) : f.url = w.manifest[k]

\* C5: get_basic_info returns no manifest-derived format, and the formats of
\* get_info contain, as a multiset, every format get_basic_info returns for
\* the same remote responses.
C5_BasicFormatsKept ==
    /\ basic.kind = "Ok" =>
          \A i \in 1..Len(basic.info.formats) :
              ~ManifestDerived(basic.info.formats[i], world)
    /\ (basic.kind = "Ok" /\ full.kind = "Ok") =>
          BagWithin(basic.info.formats, full.info.formats)

C5_Witness ==
    /\ basic.kind = "Ok" /\ full.kind = "Ok"
    /\ world.pr.hls = "ok"
    /\ Len(basic.info.formats) = 2
    /\ Len(full.info.formats) > 2
    /\ \E i \in 1..Len(full.info.formats) :
          full.info.formats[i].from = "manifest"
    /\ full.info.formats[1].from = "manifest"

NoManifest(w) == w.pr.hls = "none" /\ ~w.pr.dash

\* C6 as stated: with no manifest URL in the player response, get_info
\* returns the very list get_basic_info returns: same entries, same order.
C6_IdenticalWithoutManifest ==
    (basic.kind = "Ok" /\ full.kind = "Ok" /\ NoManifest(world))
    => full.info.formats = basic.info.formats

\* C6, amended: with no manifest URL, get_info returns the entries of
\* get_basic_info's list (the same multiset) in sort_formats order; the two
\* lists are identical when get_basic_info's list is already in that order.
C6_SortedWithoutManifest ==
    (basic.kind = "Ok" /\ full.kind = "Ok" /\ NoManifest(world))
    => /\ BagWithin(basic.info.formats, full.info.formats)
       /\ BagWithin(full.info.formats, basic.info.formats)
       /\ Len(full.info.formats) = Len(basic.info.formats)
       /\ Sorted(full.info.formats)
       /\ Sorted(basic.info.formats) =>
             full.info.formats = basic.info.formats

C6_Witness ==
    /\ basic.kind = "Ok" /\ full.kind = "Ok" /\ NoManifest(world)
    /\ Len(basic.info.formats) = 2
    /\ ~Sorted(basic.info.formats)
    /\ full.info.formats =
          <<basic.info.formats[2], basic.info.formats[1]>>

-----------------------------------------------------------------------------
(* Properties of the stream session *)

IsRange(p) == p.kind = "range"

Ranges == SelectSeq(pulls, IsRange)

\* the length of the chosen source: the declared one, or the origin's
SourceLength ==
    IF selection.format.content_length.tag = "num"
          /\ selection.format.content_length.n # 0
    THEN selection.format.content_length.n
    ELSE world.originLength.n

\* the window the caller asked for
WindowSize ==
    IF world.options.dl_chunk_size.some THEN world.options.dl_chunk_size.n
    ELSE DefaultChunkSize

C8_EndOfStream ==
    strm.kind = "Ok" =>
       /\ \A k \in 1..Len(pulls) :
             pulls[k].kind = "end" <=> pulls[k].lo >= SourceLength
       /\ (SourceLength = 0 /\ pulls # <<>>) => pulls[1].kind = "end"

C8_Witness ==
    /\ strm.kind = "Ok"
    /\ SourceLength = 0
    /\ Len(pulls) = 2
    /\ pulls[1].kind = "end" /\ pulls[2].kind = "end"

LastRequest(reqs) == IF reqs = <<>> THEN "" ELSE reqs[Len(reqs)]

\* C9: when the chosen format declares no content length, stream() asks the
\* origin for it before it returns a session, and when the origin answers
\* without a length stream() fails with VideoSourceNotFound (the
\* source-unavailable failure) and creates no session.
C9_NoLengthSourceUnavailable ==
    (Called(strm) /\ selection.kind = "Ok"
        /\ selection.format.content_length.tag = "none")
    => /\ strm.kind = "Ok" => LastRequest(requests.stream) = "media_length"
       /\ (world.originFetch = "ok" /\ ~world.originLength.some) =>
             /\ strm = Err("VideoSourceNotFound")
             /\ session = NoSession

\* the catalog stream() selects from
StreamCatalog == get_info(world).res.info.formats

Matching ==
    {i \in 1..Len(StreamCatalog) :
        Satisfies(StreamCatalog[i], world.options.filter)}

FirstMatching == CHOOSE i \in Matching : \A j \in Matching : i <= j

-----------------------------------------------------------------------------
(* Properties of decipherment and of the catalog's failures *)

\* the gate passes and the details are built: get_basic_info reaches the
\* catalog build of info.rs 190-200
ReachesCatalog(w) ==
    /\ Parsed(w)
    /\ PlayabilityGate(w.pr) = "pass"
    /\ ~clean_video_details_panics(w.pr)

IsReady(r) == r.kind = "url"

\* the formats that need no decipherment: those of the raw entries that
\* carry a ready URL
ReadyFormats(w) == ParseFrom(SelectSeq(w.pr.raw, IsReady), FALSE, 1)

\* the player script's reference, its text or its transform routine could
\* not be had
DecipherFailed(w) ==
    ~w.html5player \/ w.functionsFetch # "ok" \/ ~w.decipher

\* C11: when decipherment fails (the player script cannot be obtained, or
\* its transform routine does not decipher), get_basic_info and get_info
\* still return Ok, with the formats that needed no decipherment.
C11_DecipherFailureDropsOnly ==
    (ReachesCatalog(world) /\ DecipherFailed(world))
    => /\ Called(basic) =>
             /\ basic.kind = "Ok"
             /\ basic.info.formats = ReadyFormats(world)
       /\ Called(full) =>
             /\ full.kind = "Ok"
             /\ BagWithin(ReadyFormats(world), full.info.formats)

Unresolved(r, w) == r.url = <<>> \/ (r.kind = "cipher" /\ ~w.decipher)

\* every entry has a locator, and every streaming-data entry was built from
\* a raw entry that has a locator of its own or a deciphered one
Resolved(fs, w) ==
    /\ \A i \in 1..Len(fs) : fs[i].url # <<>>
    /\ \A i \in 1..Len(fs) :
          fs[i].from = "streaming" =>
             \E k \in 1..Len(w.pr.raw) :
                 /\ w.pr.raw[k].itag = fs[i].itag
                 /\ ~Unresolved(w.pr.raw[k], w)

\* C12: every format of the VideoInfo that get_basic_info or get_info
\* returns has a non-empty locator, from streaming data or from the manifest,
\* and a raw entry without a locator or with an undeciphered one has left no
\* format in it.
C12_NonEmptyLocators ==
    /\ basic.kind = "Ok" => Resolved(basic.info.formats, world)
    /\ full.kind = "Ok" => Resolved(full.info.formats, world)

C12_Witness ==
    /\ full.kind = "Ok"
    /\ \E k \in 1..Len(world.pr.raw) : world.pr.raw[k].url = <<>>
    /\ Len(full.info.formats) = 2
    /\ \E i \in 1..2 : full.info.formats[i].from = "manifest"
    /\ \E i \in 1..2 : full.info.formats[i].from = "streaming"
    /\ \A i \in 1..2 : full.info.formats[i].url # <<>>

\* a format could not be resolved (no locator, an undeciphered one, or the
\* player script was not had), or the manifest could not be read
FormatFailure(w) ==
    \/ \E k \in 1..Len(w.pr.raw) : Unresolved(w.pr.raw[k], w)
    \/ ~w.html5player \/ w.functionsFetch # "ok"
    \/ w.pr.hls # "none" /\ ~get_m3u8_ok(w)

\* C13: failures of single formats and of the manifest make no operation
\* fail while a format survives: get_basic_info and get_info return Ok, and
\* stream() fails with VideoSourceNotFound (the source-unavailable failure)
\* only when no format of the catalog satisfies the filter; with an empty
\* final catalog stream() does fail with it and opens no session.
C13_EscalateOnlyWhenEmpty ==
    (ReachesCatalog(world) /\ FormatFailure(world)) =>
       /\ Called(basic) => basic.kind = "Ok"
       /\ Called(full) => full.kind = "Ok"
       /\ (Called(full) /\ Called(strm)) =>
             /\ full.info.formats = <<>> =>
                   /\ strm = Err("VideoSourceNotFound")
                   /\ session = NoSession
                   /\ pulls = <<>>
             /\ strm = Err("VideoSourceNotFound") =>
                   \A i \in 1..Len(full.info.formats) :
                       ~Satisfies(full.info.formats[i], world.options.filter)

-----------------------------------------------------------------------------
(* Properties of the final order *)

\* what sort_formats compares
Key(f) == <<AvRank(f), ContainerRank(f.container), f.bitrate>>

\* the entries of fs that compare equal to f, in the order fs has them
EqualTo(fs, f) ==
    LET Test(g) == Key(g) = Key(f) IN SelectSeq(fs, Test)

\* the catalog as discovered: streaming-data formats in their original
\* order, then the manifest's formats in line order
Discovery(w) == BasicFormats(w) \o
    (IF HlsMerged(BasicInfoOf(w), w) THEN ManifestFormats(get_m3u8(w), 1)
     ELSE <<>>)

\* C14: the formats get_info returns are a fixed point of the sort; formats
\* that compare equal stand in discovery order (streaming data first, then
\* manifest lines); a format with both audio and video stands before every
\* single-track format of the same container and bitrate.
C14_SortFixedPoint ==
    full.kind = "Ok" =>
       \A fs \in {full.info.formats} :
       \A discovered \in {Discovery(world)} :
           /\ sort_by_sort_formats(fs) = fs
           /\ Sorted(fs)
           /\ \A i \in 1..Len(fs) :
                 EqualTo(fs, fs[i]) = EqualTo(discovered, fs[i])
           /\ \A i, j \in 1..Len(fs) :
                 (/\ AvRank(fs[i]) < AvRank(fs[j])
                  /\ fs[i].container = fs[j].container
                  /\ fs[i].bitrate = fs[j].bitrate) => i < j

C14_Witness ==
    /\ full.kind = "Ok"
    /\ Len(world.pr.raw) = 3 /\ world.pr.raw[3] = F18
    /\ Len(full.info.formats) = 4
    /\ full.info.formats[1].itag = 18
    /\ full.info.formats[2].itag = 134
    /\ full.info.formats[3].itag = 140
    /\ full.info.formats[3].from = "streaming"
    /\ full.info.formats[4].itag = 140
    /\ full.info.formats[4].from = "manifest"

-----------------------------------------------------------------------------
(* Properties of the requests and of the manifests *)

GateRejects(w) == Parsed(w) /\ PlayabilityGate(w.pr) # "pass"

\* C16: when the watch page was fetched and parsed and the gate rejects it,
\* the operation ends with the gate's failure after that one page request:
\* the page is not fetched again and no player-script, manifest or media
\* request follows; stream() opens no session.
C16_NoRequestAfterRejection ==
    GateRejects(world) =>
       /\ Called(basic) =>
             /\ basic = Err(PlayabilityGate(world.pr))
             /\ requests.basic = <<"watch_page">>
       /\ Called(full) =>
             /\ full = Err(PlayabilityGate(world.pr))
             /\ requests.full = <<"watch_page">>
       /\ Called(strm) =>
             /\ strm = Err(PlayabilityGate(world.pr))
             /\ requests.stream = <<"watch_page">>
             /\ session = NoSession
             /\ pulls = <<>>

C16_Witness ==
    /\ GateRejects(world)
    /\ world.pr.rental /\ ~world.pr.private /\ ~world.pr.playError
    /\ basic = Err("VideoSourceNotFound")
    /\ full = Err("VideoSourceNotFound")
    /\ strm = Err("VideoSourceNotFound")
    /\ requests =
          [basic |-> <<"watch_page">>, full |-> <<"watch_page">>,
           stream |-> <<"watch_page">>]

\* a live event not yet broadcast, with nothing else for the gate to reject
NotYetBroadcastOnly(w) ==
    /\ Parsed(w)
    /\ w.pr.notYet
    /\ ~w.pr.playError /\ ~w.pr.private /\ ~w.pr.rental
    /\ w.pr.streamingData

\* C17: a response describing a live event not yet broadcast is rejected
\* with VideoSourceNotFound (the source-unavailable failure) by get_info,
\* and is not rejected so by get_basic_info.
C17_NotYetBroadcastFullOnly ==
    NotYetBroadcastOnly(world) =>
       /\ Called(full) => full = Err("VideoSourceNotFound")
       /\ Called(basic) => basic # Err("VideoSourceNotFound")

HlsFailed(w) == w.pr.hls # "none" /\ ~get_m3u8_ok(w)

\* C19: when the HLS manifest cannot be fetched or its URL cannot be read,
\* get_info still returns Ok, with exactly the formats of get_basic_info in
\* sort_formats order and no manifest-derived entry.
C19_ManifestFailureSwallowed ==
    (HlsFailed(world) /\ basic.kind = "Ok" /\ Called(full)) =>
       /\ full.kind = "Ok"
       /\ full.info.formats = sort_by_sort_formats(basic.info.formats)
       /\ \A i \in 1..Len(full.info.formats) :
             ~ManifestDerived(full.info.formats[i], world)

C19_Witness ==
    /\ world.pr.hls = "ok" /\ world.manifestFetch = "transport_err"
    /\ basic.kind = "Ok" /\ Len(basic.info.formats) = 2
    /\ ~Sorted(basic.info.formats)
    /\ full.kind = "Ok"
    /\ full.info.formats = sort_by_sort_formats(basic.info.formats)
    /\ requests.full = <<"watch_page", "player_script", "manifest">>

-----------------------------------------------------------------------------
(* Properties of the video id and of the blocking adapter *)

Derivable(inp) == inp.denotes # NoId.id

\* C15: the constructors store the id of the video the caller's text
\* denotes, whether the text is the bare id or one of the video's URLs;
\* get_video_id() returns it, get_video_url() returns BASE_URL followed by
\* it, and a Video built from that URL has the same id; a text that denotes
\* no video gives VideoNotFound.
C15_VideoIdRoundTrip ==
    /\ (Called(video) /\ ~Derivable(input)) =>
          video = NotBuiltErr("VideoNotFound")
    /\ (Called(video) /\ Derivable(input)) =>
          /\ video.err # "VideoNotFound"
          /\ (input.build = "ok" /\ input.options.ipv6_block # "bad") =>
                video = Built(input.denotes)
    /\ got.id.called => got.id.value = input.denotes
    /\ got.url.called => got.url.value = BASE_URL \o input.denotes
    /\ Called(again) =>
          /\ again = Built(video.obj.video_id)
          /\ again.obj.video_id = input.denotes

C15_Witness ==
    /\ input.url_or_id =
          <<"https://", "youtu.be", "/", "b", "a", "?t=1s">>
    /\ video = Built(<<"b", "a">>)
    /\ got.id = Answer(<<"b", "a">>)
    /\ got.url = Answer(BASE_URL \o <<"b", "a">>)
    /\ again = video

\* C18: for the same arguments and remote responses each blocking operation
\* returns what its async counterpart returns, Ok value or error kind, and
\* the blocking info operations issue the same requests in the same order.
C18_BlockingAdapter ==
    /\ (Called(video) /\ Called(bvideo)) =>
          /\ bvideo.kind = video.kind
          /\ bvideo.err = video.err
          /\ bvideo.obj.inner = video.obj
    /\ (got.url.called /\ got.burl.called) => got.burl = got.url
    /\ (got.id.called /\ got.bid.called) => got.bid = got.id
    /\ (Called(basic) /\ Called(bbasic)) =>
          /\ bbasic = basic
          /\ brequests.basic = requests.basic
    /\ (Called(full) /\ Called(bfull)) =>
          /\ bfull = full
          /\ brequests.full = requests.full

C18_Witness ==
    /\ video.kind = "Ok" /\ bvideo.kind = "Ok"
    /\ got.burl.called /\ got.burl = got.url
    /\ got.bid.called /\ got.bid = got.id
    /\ basic.kind = "Ok" /\ bbasic = basic
    /\ full.kind = "Ok" /\ bfull = full
    /\ full.info.formats # basic.info.formats
    /\ Len(full.info.formats) = 4
    /\ brequests.full = <<"watch_page", "player_script", "manifest">>
    /\ brequests.full = requests.full


-----------------------------------------------------------------------------
(* Properties of the manifest's formats *)

StartsWithHttp(line) ==
    Len(line) >= 1 /\ line[1] \in {"http://", "https://"}

\* the line holds /itag/<tag>/ and no /itag/<digits>/ before it
EmbedsItag(line, tag) ==
    \E i \in 1..(Len(line) - 2) :
        /\ line[i] = "/itag/" /\ line[i + 1] = tag /\ line[i + 2] = "/"
        /\ \A j \in 1..(i - 1) :
               ~(line[j] = "/itag/" /\ line[j + 2] = "/"
                    /\ line[j + 1] \in {"96", "140", "999"})

\* the manifest line is a URL whose itag the built-in table holds
KnownLine(line) ==
    StartsWithHttp(line) /\ \E key \in DOMAIN FORMATS : EmbedsItag(line, key)

IsFromManifest(f) == f.from = "manifest"

\* C21: every manifest-derived format of get_info's result has as url a whole
\* manifest line that starts with http:// or https:// and embeds
\* /itag/<digits>/, and its itag is a key of the built-in table; every such
\* line of a fetched manifest gives one format, whatever lines stand before
\* it, and a line whose itag the table lacks gives none.
C21_ManifestFormatsFromKnownLines ==
    full.kind = "Ok" =>
       /\ \A i \in 1..Len(full.info.formats) :
             IsFromManifest(full.info.formats[i]) =>
                \E k \in 1..Len(world.manifest), key \in DOMAIN FORMATS :
                    /\ StartsWithHttp(world.manifest[k])
                    /\ EmbedsItag(world.manifest[k], key)
                    /\ full.info.formats[i].url = world.manifest[k]
                    /\ full.info.formats[i].itag = FORMATS[key].n
       /\ (world.pr.hls = "ok" /\ world.manifestFetch = "ok") =>
             \A line \in {world.manifest[k] : k \in 1..Len(world.manifest)} :
                 Cardinality({i \in 1..Len(full.info.formats) :
                                 /\ IsFromManifest(full.info.formats[i])
                                 /\ full.info.formats[i].url = line})
                    = (IF KnownLine(line)
                       THEN Cardinality({k \in 1..Len(world.manifest) :
                                            world.manifest[k] = line})
                       ELSE 0)

\* a line with an itag the table lacks stands before a line that gives a
\* format
C21_Witness ==
    /\ full.kind = "Ok"
    /\ world.manifest = <<Line999, Line96>>
    /\ \E i \in 1..Len(full.info.formats) :
          /\ IsFromManifest(full.info.formats[i])
          /\ full.info.formats[i].url = Line96
          /\ full.info.formats[i].itag = 96

-----------------------------------------------------------------------------
(* Properties of the pulls' progress *)

\* a step of Stream::chunk: one more pull is recorded
IsPull == Len(pulls') = Len(pulls) + 1

\* C22: whatever content_length and window size the session was opened with
\* (the default or the caller's dl_chunk_size), a pull never moves the
\* position back, a pull that returns a body moves it forward, and so the
\* pulls that return a body are at most content_length in number: a consumer
\* whose requests succeed is told end-of-stream after that many pulls at
\* the latest.
C22_PullsReachEnd ==
    [][IsPull =>
          /\ session'.start >= session.start
          /\ pulls'[Len(pulls')].kind = "range" =>
                 session'.start > session.start
          /\ Len(SelectSeq(pulls', IsRange)) <= session.content_length]_vars

-----------------------------------------------------------------------------
(* Properties of two sessions of one Video *)

\* the session behind the caller's handle k
SessionOf(k) == sessions[CellOf(k)]

RangesOf(k) == SelectSeq(observed[k].pulls, IsRange)

\* the i-th range a session pulled alone asks for
AloneRange(i) ==
    Pull("range", Min((i - 1) * WindowSize, SourceLength),
         Min(i * WindowSize, SourceLength))

\* a step of Stream::chunk on handle k
IsPullOn(k) == Len(observed'[k].pulls) = Len(observed[k].pulls) + 1

\* C23: of two sessions opened separately from one Video, under every
\* interleaving of their pulls, each asks for the ranges it asks for when
\* pulled alone, and a pull on one leaves the other's position, window size
\* and content length as they were.
C23_SessionsIndependent ==
    /\ [](\A k \in Handles :
             observed[k].res.kind = "Ok" =>
                \A i \in 1..Len(RangesOf(k)) : RangesOf(k)[i] = AloneRange(i))
    /\ [][\A k \in Handles :
             IsPullOn(k) =>
                \A j \in Handles \ {k} :
                    /\ SessionOf(j).start' = SessionOf(j).start
                    /\ SessionOf(j).dl_chunk_size' = SessionOf(j).dl_chunk_size
                    /\ SessionOf(j).content_length'
                          = SessionOf(j).content_length]_vars

\* both sessions are open, one has been pulled to the end of a source of
\* three bytes and the other, pulled once, stands at its first window's end
C23_Witness ==
    /\ observed[1].res.kind = "Ok" /\ observed[2].res.kind = "Ok"
    /\ observed[1].pulls =
          <<Pull("range", 0, 2), Pull("range", 2, 3), Pull("end", 3, 3)>>
    /\ observed[2].pulls = <<Pull("range", 0, 2)>>
    /\ SessionOf(1).start = 3 /\ SessionOf(2).start = 2

=============================================================================
